---- MODULE Spec2Model ----
(***************************************************************************)
(* A model of flareproxygo (src/main.go, lines 1-316): the DirectHandler   *)
(* and the ProxyHandler, which forward client requests to FlareSolverr     *)
(* and relay its JSON-wrapped answer.                                      *)
(*                                                                         *)
(* Strings the code takes apart (paths, URLs) are sequences of one-        *)
(* character strings, so that strings.HasPrefix, strings.Replace and       *)
(* strings.SplitN are computed as Go computes them.  Strings the code      *)
(* only copies (messages, page bodies, the configured URL) are atoms.      *)
(*                                                                         *)
(* A handler blocks in client.Do; the model splits it there: one action    *)
(* runs ServeHTTP up to the call (or to the response, when no call is      *)
(* made), one action per router delivers FlareSolverr's answer and runs    *)
(* the handler on to its next call or to its response.                     *)
(***************************************************************************)
EXTENDS Naturals, Sequences, FiniteSets

VARIABLES
    env,            \* the value of FLARESOLVERR_URL in the process environment
    directHandler,  \* *DirectHandler, as NewDirectHandler built it
    proxyHandler,   \* *ProxyHandler, as NewProxyHandler built it
    reqs            \* per inbound request: its input, the handler's locals,
                    \* the calls the FlareSolverr stub saw, the answers it
                    \* gave, the http.ResponseWriter

vars == <<env, directHandler, proxyHandler, reqs>>

---------------------------------------------------------------------------
(* Bounds and input sets                                                   *)

\* the number of inbound requests of a run (they may overlap in time)
NumReq == 2

Reqs == 1..NumReq

\* text fragments
Empty == <<>>
Slash == <<"/">>
HTTPSPrefix == <<"h", "t", "t", "p", "s", ":", "/", "/">>
HTTPPrefix == <<"h", "t", "t", "p", ":", "/", "/">>
SchemeHTTP == <<"h", "t", "t", "p">>
SchemeHTTPS == <<"h", "t", "t", "p", "s">>

Methods == {"GET", "POST", "CONNECT", "PUT"}

RawQueries == {Empty, <<"q">>}

\* r.URL.Path of the requests sent to the direct port: the two the handler
\* rejects, a bare domain, a domain with a path, an empty domain, and a path
\* that itself holds the text "https://"
PathA == <<"/", "a">>
PathAB == <<"/", "a", "/", "b">>
PathNoDomain == <<"/", "/", "b">>
PathWithScheme == <<"/", "a", "/">> \o HTTPSPrefix \o <<"b">>

DirectPaths == {Empty, Slash, PathA, PathAB, PathNoDomain, PathWithScheme}

\* the requests sent to the direct port: r.Method, r.URL.Path, r.URL.RawQuery
\* (every method and query on the rejected paths and on one forwarded path,
\* GET without a query on the others)
DirectInputs ==
    { r \in [method : Methods, scheme : {Empty}, host : {Empty},
             path : DirectPaths, rawQuery : RawQueries] :
        \/ r.path \in {Empty, Slash}
        \/ r.path = PathAB /\ (r.rawQuery # Empty \/ r.method = "GET")
        \/ r.method = "GET" /\ r.rawQuery = Empty }

\* the requests sent to the proxy port: r.Method and the parts of r.URL
\* (absolute http and https URLs, with and without the text "http://" in the
\* path; CONNECT in authority form; a GET in origin form)
ProxyInputs ==
    { r \in [method : Methods, scheme : {SchemeHTTP, SchemeHTTPS}, host : {<<"a">>},
             path : {Empty, Slash \o HTTPPrefix \o <<"b">>}, rawQuery : RawQueries] :
        \/ r.method = "GET" /\ r.rawQuery = Empty
        \/ r.method # "GET" /\ r.scheme = SchemeHTTP /\ r.path = Empty }
    \cup
    { [method |-> "CONNECT", scheme |-> Empty, host |-> <<"a", ":", "4">>,
       path |-> Empty, rawQuery |-> Empty],
      [method |-> "GET", scheme |-> Empty, host |-> Empty,
       path |-> <<"/", "b">>, rawQuery |-> <<"q">>] }

NoInput == [method |-> "", scheme |-> Empty, host |-> Empty, path |-> Empty,
            rawQuery |-> Empty]

\* values of FLARESOLVERR_URL: unset, a usable URL, a text url.Parse rejects
EnvValues == {"", "http://custom:9999/api", ":bad"}

\* what one call to FlareSolverr can come back with
\*   transport: client.Do returns an error;  read: io.ReadAll returns an error;
\*   malformed: json.Unmarshal returns an error;  json: the body was decoded
Replies ==
    { [kind |-> "transport", cause |-> "connection refused", status |-> "",
       message |-> "", response |-> "", solStatus |-> 0],
      [kind |-> "read", cause |-> "unexpected EOF", status |-> "",
       message |-> "", response |-> "", solStatus |-> 0],
      [kind |-> "malformed", cause |-> "invalid character", status |-> "",
       message |-> "", response |-> "", solStatus |-> 0],
      [kind |-> "json", cause |-> "", status |-> "ok",
       message |-> "", response |-> "<A>", solStatus |-> 200],
      [kind |-> "json", cause |-> "", status |-> "ok",
       message |-> "X", response |-> "<B>", solStatus |-> 404],
      [kind |-> "json", cause |-> "", status |-> "error",
       message |-> "X", response |-> "", solStatus |-> 0],
      [kind |-> "json", cause |-> "", status |-> "error",
       message |-> "Y", response |-> "<A>", solStatus |-> 500],
      [kind |-> "json", cause |-> "", status |-> "",
       message |-> "", response |-> "", solStatus |-> 0] }

---------------------------------------------------------------------------
(* Go's strings package, on sequences of characters                        *)

\* strings.HasPrefix(s, prefix)
HasPrefix(s, prefix) ==
    /\ Len(s) >= Len(prefix)
    /\ SubSeq(s, 1, Len(prefix)) = prefix

\* strings.Index(s, substr), 1-based; 0 when substr does not occur
Index(s, substr) ==
    LET at == { i \in 1..(Len(s) + 1) :
                  /\ i + Len(substr) - 1 <= Len(s)
                  /\ SubSeq(s, i, i + Len(substr) - 1) = substr }
    IN  IF at = {} THEN 0 ELSE CHOOSE i \in at : \A j \in at : i <= j

\* strings.Replace(s, old, new, 1): the first occurrence only
ReplaceFirst(s, old, new) ==
    LET i == Index(s, old)
    IN  IF i = 0 THEN s
        ELSE SubSeq(s, 1, i - 1) \o new \o SubSeq(s, i + Len(old), Len(s))

\* strings.SplitN(s, sep, 2)
SplitN2(s, sep) ==
    LET i == Index(s, sep)
    IN  IF i = 0 THEN <<s>>
        ELSE <<SubSeq(s, 1, i - 1), SubSeq(s, i + Len(sep), Len(s))>>

\* (*url.URL).String(), for the parts a request URL has here
URLString(u) ==
    LET withScheme == IF u.scheme # Empty THEN u.scheme \o <<":">> ELSE Empty
        authority ==
            IF u.scheme # Empty \/ u.host # Empty
            THEN (IF u.host # Empty \/ u.path # Empty THEN <<"/", "/">> ELSE Empty)
                 \o u.host
            ELSE Empty
        rooted ==
            IF u.path # Empty /\ Head(u.path) # "/" /\ u.host # Empty
            THEN Slash ELSE Empty
        query == IF u.rawQuery # Empty THEN <<"?">> \o u.rawQuery ELSE Empty
    IN  withScheme \o authority \o rooted \o u.path \o query

---------------------------------------------------------------------------
(* Construction                                                            *)

DefaultFlareSolverrURL == "http://flaresolverr:8191/v1"

\* NewDirectHandler
NewDirectHandler(envURL) ==
    [flareSolverrURL |->
        IF envURL = "" THEN DefaultFlareSolverrURL ELSE envURL]

\* NewProxyHandler
NewProxyHandler(envURL) ==
    [flareSolverrURL |->
        IF envURL = "" THEN DefaultFlareSolverrURL ELSE envURL]

\* http.NewRequest("POST", url, body) fails when url.Parse rejects the URL
NewRequestFails(url) == url = ":bad"

---------------------------------------------------------------------------
(* http.ResponseWriter                                                     *)

\* a fresh ResponseWriter: no header set, no status line, no body written
NewWriter == [code |-> 0, contentType |-> "", headerWrites |-> 0, body |-> <<>>]

\* w.Header().Set("Content-Type", v): no effect once the header is sent
SetContentType(w, v) ==
    IF w.headerWrites = 0 THEN [w EXCEPT !.contentType = v] ELSE w

\* w.WriteHeader(code): the first call sends the status line
WriteHeader(w, code) ==
    [w EXCEPT !.code = IF w.headerWrites = 0 THEN code ELSE @,
              !.headerWrites = @ + 1]

\* w.Write(chunk): sends status 200 first when WriteHeader was not called
Write(w, chunk) ==
    LET w1 == IF w.headerWrites = 0 THEN WriteHeader(w, 200) ELSE w
    IN  [w1 EXCEPT !.body = Append(@, chunk)]

\* a written chunk: raw bytes (text: the fragments of the text), or the JSON
\* encoding of map[string]string{"error": message} (text: the fragments of message)
RawChunk(text) == [format |-> "raw", text |-> text]
ErrorObject(message) == [format |-> "json-error", text |-> message]

\* http.Error(w, msg, code)
HttpError(w, msg, code) ==
    Write(WriteHeader(SetContentType(w, "text/plain; charset=utf-8"), code),
          RawChunk(<<msg, "\n">>))

---------------------------------------------------------------------------
(* The call to FlareSolverr                                                *)

MaxTimeout == 60000

\* a variant that reads FLARESOLVERR_URL when the call is made
UpstreamCallEnvNow(h, cmd, url) ==
    [method |-> "POST",
     to |-> IF env = "" THEN DefaultFlareSolverrURL ELSE env,
     contentType |-> "application/json",
     cmd |-> cmd, url |-> url, maxTimeout |-> MaxTimeout]

\* FlareSolverrRequest, marshalled and wrapped in the POST that carries it
\* (json.Marshal of a struct of two strings and an int cannot fail)
UpstreamCall(h, cmd, url) ==
    [method |-> "POST", to |-> h.flareSolverrURL,
     contentType |-> "application/json",
     cmd |-> cmd, url |-> url, maxTimeout |-> MaxTimeout]

\* a request that has not arrived yet
IdleRequest ==
    [state |-> "idle", router |-> "none", in |-> NoInput,
     targetURL |-> Empty, cmd |-> "",
     calls |-> <<>>, replies |-> <<>>, w |-> NewWriter]

---------------------------------------------------------------------------
(* DirectHandler                                                           *)

\* DirectHandler.sendError
DirectHandler_sendError(q, message) ==
    [q EXCEPT !.state = "responded",
              !.w = Write(WriteHeader(SetContentType(@, "application/json"), 500),
                          ErrorObject(message))]

\* a variant that serves a URL another request was already answered 200 for
\* from that answer, without a call
DirectHandler_forwardCached(h, q, targetURL, cmd) ==
    LET hits == { o \in Reqs :
                    /\ reqs[o].state = "responded"
                    /\ reqs[o].w.code = 200
                    /\ reqs[o].calls # <<>>
                    /\ reqs[o].calls[Len(reqs[o].calls)].url = targetURL }
    IN  IF hits # {}
        THEN [q EXCEPT !.state = "responded",
                       !.w = reqs[CHOOSE o \in hits : TRUE].w]
        ELSE IF NewRequestFails(h.flareSolverrURL)
             THEN DirectHandler_sendError(q, <<"Failed to create request: ", "parse error">>)
             ELSE [q EXCEPT !.state = "forwarding",
                            !.targetURL = targetURL,
                            !.cmd = cmd,
                            !.calls = Append(@, UpstreamCall(h, cmd, targetURL))]

\* forwardToFlareSolverr from its entry to d.client.Do(req): the request is
\* built and handed to the client, and the handler blocks for the answer
DirectHandler_forwardToFlareSolverr(h, q, targetURL, cmd) ==
    IF NewRequestFails(h.flareSolverrURL)
    THEN DirectHandler_sendError(q, <<"Failed to create request: ", "parse error">>)
    ELSE [q EXCEPT !.state = "forwarding",
                   !.targetURL = targetURL,
                   !.cmd = cmd,
                   !.calls = Append(@, UpstreamCall(h, cmd, targetURL))]

\* a variant without the fallback
DirectNeverFallsBack(targetURL, reply) == FALSE

\* a variant that retries on every failure, whatever the scheme of the URL
DirectFallsBackAgain(targetURL, reply) == reply.status # "ok"

\* whether a decoded answer sends forwardToFlareSolverr into its fallback
DirectFallsBack(targetURL, reply) ==
    /\ reply.status # "ok"
    /\ HasPrefix(targetURL, HTTPSPrefix)

\* strings.ReplaceAll(s, old, new), for an old that new does not contain
RECURSIVE ReplaceAll(_, _, _)
ReplaceAll(s, old, new) ==
    LET i == Index(s, old)
    IN  IF i = 0 THEN s
        ELSE SubSeq(s, 1, i - 1) \o new
             \o ReplaceAll(SubSeq(s, i + Len(old), Len(s)), old, new)

\* a variant that replaces every "https://" of the URL
DirectFallbackURLAll(targetURL) == ReplaceAll(targetURL, HTTPSPrefix, HTTPPrefix)

\* a variant that retries the URL as it is
DirectFallbackURLSame(targetURL) == targetURL

\* the URL of the fallback call
DirectFallbackURL(targetURL) == ReplaceFirst(targetURL, HTTPSPrefix, HTTPPrefix)

\* a variant that passes on the status the target site answered with
DirectWriteSuccessUpstreamStatus(q, reply) ==
    [q EXCEPT !.state = "responded",
              !.w = Write(WriteHeader(SetContentType(@, "text/html; charset=utf-8"),
                                      reply.solStatus),
                          RawChunk(<<reply.response>>))]

\* the success path: header, status line, body
DirectWriteSuccess(q, reply) ==
    [q EXCEPT !.state = "responded",
              !.w = Write(WriteHeader(SetContentType(@, "text/html; charset=utf-8"), 200),
                          RawChunk(<<reply.response>>))]

\* a variant that reports the failed https attempt to the client and then
\* makes the fallback call
DirectHandler_forwardReturnsReportsFirst(h, q0, reply) ==
    LET q == [q0 EXCEPT !.replies = Append(@, reply)]
    IN  CASE reply.kind = "transport" ->
                DirectHandler_sendError(q,
                    <<"Failed to connect to FlareSolverr: ", reply.cause>>)
          [] reply.kind = "read" ->
                DirectHandler_sendError(q, <<"Failed to read response: ", reply.cause>>)
          [] reply.kind = "malformed" ->
                DirectHandler_sendError(q, <<"Failed to parse response: ", reply.cause>>)
          [] OTHER ->
                IF reply.status # "ok"
                THEN IF DirectFallsBack(q.targetURL, reply)
                     THEN DirectHandler_forwardToFlareSolverr(
                              h,
                              DirectHandler_sendError(q,
                                  <<"FlareSolverr error: ", reply.message>>),
                              DirectFallbackURL(q.targetURL), q.cmd)
                     ELSE DirectHandler_sendError(q,
                              <<"FlareSolverr error: ", reply.message>>)
                ELSE DirectWriteSuccess(q, reply)

\* a variant that keeps the target URL in a field of the handler, where a
\* request in flight finds the URL of another request in flight
DirectHandler_forwardReturnsSharedURL(h, q0, reply) ==
    LET q == [q0 EXCEPT !.replies = Append(@, reply)]
        others == { o \in Reqs :
                      /\ reqs[o].state = "forwarding"
                      /\ reqs[o].router = "direct"
                      /\ reqs[o] # q0 }
        sharedURL == IF others = {} THEN q.targetURL
                     ELSE reqs[CHOOSE o \in others : TRUE].targetURL
    IN  CASE reply.kind = "transport" ->
                DirectHandler_sendError(q,
                    <<"Failed to connect to FlareSolverr: ", reply.cause>>)
          [] reply.kind = "read" ->
                DirectHandler_sendError(q, <<"Failed to read response: ", reply.cause>>)
          [] reply.kind = "malformed" ->
                DirectHandler_sendError(q, <<"Failed to parse response: ", reply.cause>>)
          [] OTHER ->
                IF reply.status # "ok"
                THEN IF DirectFallsBack(sharedURL, reply)
                     THEN DirectHandler_forwardToFlareSolverr(
                              h, q, DirectFallbackURL(sharedURL), q.cmd)
                     ELSE DirectHandler_sendError(q,
                              <<"FlareSolverr error: ", reply.message>>)
                ELSE DirectWriteSuccess(q, reply)

\* forwardToFlareSolverr from the return of d.client.Do(req) to its own return
DirectHandler_forwardReturns(h, q0, reply) ==
    LET q == [q0 EXCEPT !.replies = Append(@, reply)]
    IN  CASE reply.kind = "transport" ->
                DirectHandler_sendError(q,
                    <<"Failed to connect to FlareSolverr: ", reply.cause>>)
          [] reply.kind = "read" ->
                DirectHandler_sendError(q, <<"Failed to read response: ", reply.cause>>)
          [] reply.kind = "malformed" ->
                DirectHandler_sendError(q, <<"Failed to parse response: ", reply.cause>>)
          [] OTHER ->
                IF reply.status # "ok"
                THEN IF DirectFallsBack(q.targetURL, reply)
                     THEN DirectHandler_forwardToFlareSolverr(
                              h, q, DirectFallbackURL(q.targetURL), q.cmd)
                     ELSE DirectHandler_sendError(q,
                              <<"FlareSolverr error: ", reply.message>>)
                ELSE DirectWriteSuccess(q, reply)

\* a variant with one command for every method
DirectCommandAlwaysGet(method) == "request.get"

\* the FlareSolverr command for an HTTP method
DirectCommand(method) ==
    CASE method = "GET" -> "request.get"
      [] method = "POST" -> "request.post"
      [] OTHER -> "request.get"

\* a variant that splits at every slash and keeps the first two parts
DirectTargetURLTwoParts(path0, rawQuery) ==
    LET path == IF Head(path0) = "/" THEN Tail(path0) ELSE path0
        parts == SplitN2(path, Slash)
        domain == parts[1]
        remainingPath == IF Len(parts) > 1
                         THEN Slash \o SplitN2(parts[2], Slash)[1] ELSE Empty
        withQuery == IF rawQuery # Empty
                     THEN remainingPath \o <<"?">> \o rawQuery
                     ELSE remainingPath
    IN  HTTPSPrefix \o domain \o withQuery

\* the URL ServeHTTP builds from the path and the query
DirectTargetURL(path0, rawQuery) ==
    LET path == IF Head(path0) = "/" THEN Tail(path0) ELSE path0
        parts == SplitN2(path, Slash)
        domain == parts[1]
        remainingPath == IF Len(parts) > 1 THEN Slash \o parts[2] ELSE Empty
        withQuery == IF rawQuery # Empty
                     THEN remainingPath \o <<"?">> \o rawQuery
                     ELSE remainingPath
    IN  HTTPSPrefix \o domain \o withQuery

\* a variant that rejects the empty path only
DirectRejectsOnlyEmpty(path) == path = Empty

\* whether ServeHTTP rejects the path
DirectRejectsPath(path) == path = Slash \/ path = Empty

\* a variant that refuses the methods it has no command for
DirectHandler_ServeHTTPMethodChecked(h, q, r) ==
    IF DirectRejectsPath(r.path)
    THEN [q EXCEPT !.state = "responded",
                   !.w = HttpError(@,
                       "Invalid URL format. Use: http://localhost:PORT/domain.com/path",
                       400)]
    ELSE IF r.method \notin {"GET", "POST"}
         THEN [q EXCEPT !.state = "responded",
                        !.w = HttpError(@, "Method not allowed", 405)]
         ELSE DirectHandler_forwardToFlareSolverr(
                  h, q, DirectTargetURL(r.path, r.rawQuery), DirectCommand(r.method))

\* DirectHandler.ServeHTTP, to its first blocking call or to its return
DirectHandler_ServeHTTP(h, q, r) ==
    IF DirectRejectsPath(r.path)
    THEN [q EXCEPT !.state = "responded",
                   !.w = HttpError(@,
                       "Invalid URL format. Use: http://localhost:PORT/domain.com/path",
                       400)]
    ELSE DirectHandler_forwardToFlareSolverr(
             h, q, DirectTargetURL(r.path, r.rawQuery), DirectCommand(r.method))

---------------------------------------------------------------------------
(* ProxyHandler                                                            *)

\* a variant that sets the Content-Type after the status line was sent
ProxyHandler_sendErrorLateHeader(q, message) ==
    [q EXCEPT !.state = "responded",
              !.w = Write(SetContentType(WriteHeader(@, 500), "application/json"),
                          ErrorObject(message))]

\* ProxyHandler.sendError
ProxyHandler_sendError(q, message) ==
    [q EXCEPT !.state = "responded",
              !.w = Write(WriteHeader(SetContentType(@, "application/json"), 500),
                          ErrorObject(message))]

ConnectMessage ==
    <<"CONNECT method is not supported",
      ". This is an HTTP-only proxy adapter for FlareSolverr. ",
      "Please use HTTP URLs (e.g., http://example.com) even for HTTPS sites. ",
      "The proxy will automatically handle HTTPS conversion when communicating with FlareSolverr.">>

\* ProxyHandler.sendConnectError
ProxyHandler_sendConnectError(q) ==
    [q EXCEPT !.state = "responded",
              !.w = Write(WriteHeader(SetContentType(@, "text/plain; charset=utf-8"), 405),
                          RawChunk(ConnectMessage))]

\* the URL handleRequest sends to FlareSolverr
ProxyTargetURL(u) == ReplaceFirst(URLString(u), HTTPPrefix, HTTPSPrefix)

\* handleRequest from its entry to p.client.Do(req)
ProxyHandler_handleRequest(h, q, r) ==
    IF NewRequestFails(h.flareSolverrURL)
    THEN ProxyHandler_sendError(q, <<"Failed to create request: ", "parse error">>)
    ELSE [q EXCEPT !.state = "forwarding",
                   !.targetURL = ProxyTargetURL(r),
                   !.cmd = "request.get",
                   !.calls = Append(@, UpstreamCall(h, "request.get", ProxyTargetURL(r)))]

\* the success path: header, status line, body
ProxyWriteSuccess(q, reply) ==
    [q EXCEPT !.state = "responded",
              !.w = Write(WriteHeader(SetContentType(@, "text/html; charset=utf-8"), 200),
                          RawChunk(<<reply.response>>))]

\* a variant that shares the direct router's answer handling, fallback included
ProxyHandler_handleReturnsWithFallback(h, q0, reply) ==
    DirectHandler_forwardReturns(h, q0, reply)

\* handleRequest from the return of p.client.Do(req) to its own return
ProxyHandler_handleReturns(h, q0, reply) ==
    LET q == [q0 EXCEPT !.replies = Append(@, reply)]
    IN  CASE reply.kind = "transport" ->
                ProxyHandler_sendError(q,
                    <<"Failed to connect to FlareSolverr: ", reply.cause>>)
          [] reply.kind = "read" ->
                ProxyHandler_sendError(q, <<"Failed to read response: ", reply.cause>>)
          [] reply.kind = "malformed" ->
                ProxyHandler_sendError(q, <<"Failed to parse response: ", reply.cause>>)
          [] OTHER ->
                IF reply.status # "ok"
                THEN ProxyHandler_sendError(q, <<"FlareSolverr error: ", reply.message>>)
                ELSE ProxyWriteSuccess(q, reply)

\* a variant that forwards CONNECT like GET
ProxyHandler_ServeHTTPConnectForwarded(h, q, r) ==
    CASE r.method \in {"GET", "CONNECT"} -> ProxyHandler_handleRequest(h, q, r)
      [] OTHER -> [q EXCEPT !.state = "responded",
                            !.w = HttpError(@, "Method not allowed", 405)]

\* a variant that forwards every method but CONNECT
ProxyHandler_ServeHTTPAnyMethod(h, q, r) ==
    CASE r.method = "CONNECT" -> ProxyHandler_sendConnectError(q)
      [] OTHER -> ProxyHandler_handleRequest(h, q, r)

\* ProxyHandler.ServeHTTP, to its first blocking call or to its return
ProxyHandler_ServeHTTP(h, q, r) ==
    CASE r.method = "GET" -> ProxyHandler_handleRequest(h, q, r)
      [] r.method = "CONNECT" -> ProxyHandler_sendConnectError(q)
      [] OTHER -> [q EXCEPT !.state = "responded",
                            !.w = HttpError(@, "Method not allowed", 405)]

---------------------------------------------------------------------------
(* The state machine                                                       *)

Init ==
    /\ env \in EnvValues
    /\ directHandler = NewDirectHandler(env)
    /\ proxyHandler = NewProxyHandler(env)
    /\ reqs = [r \in Reqs |-> IdleRequest]

\* a request arrives at the direct port and DirectHandler.ServeHTTP runs
DirectRequest(id, r) ==
    /\ reqs[id].state = "idle"
    /\ reqs' = [reqs EXCEPT ![id] =
                   DirectHandler_ServeHTTP(directHandler,
                       [@ EXCEPT !.router = "direct", !.in = r], r)]
    /\ UNCHANGED <<env, directHandler, proxyHandler>>

\* a request arrives at the proxy port and ProxyHandler.ServeHTTP runs
ProxyRequest(id, r) ==
    /\ reqs[id].state = "idle"
    /\ reqs' = [reqs EXCEPT ![id] =
                   ProxyHandler_ServeHTTP(proxyHandler,
                       [@ EXCEPT !.router = "proxy", !.in = r], r)]
    /\ UNCHANGED <<env, directHandler, proxyHandler>>

\* d.client.Do returns to a blocked direct-mode handler
DirectUpstreamReturns(id, reply) ==
    /\ reqs[id].state = "forwarding"
    /\ reqs[id].router = "direct"
    /\ reqs' = [reqs EXCEPT ![id] =
                   DirectHandler_forwardReturns(directHandler, @, reply)]
    /\ UNCHANGED <<env, directHandler, proxyHandler>>

\* p.client.Do returns to a blocked proxy-mode handler
ProxyUpstreamReturns(id, reply) ==
    /\ reqs[id].state = "forwarding"
    /\ reqs[id].router = "proxy"
    /\ reqs' = [reqs EXCEPT ![id] =
                   ProxyHandler_handleReturns(proxyHandler, @, reply)]
    /\ UNCHANGED <<env, directHandler, proxyHandler>>

Next ==
    \/ \E id \in Reqs, r \in DirectInputs : DirectRequest(id, r)
    \/ \E id \in Reqs, r \in ProxyInputs : ProxyRequest(id, r)
    \/ \E id \in Reqs, reply \in Replies : DirectUpstreamReturns(id, reply)
    \/ \E id \in Reqs, reply \in Replies : ProxyUpstreamReturns(id, reply)

Spec == Init /\ [][Next]_vars

\* the program with an upstream whose every call returns: client.Do blocks the
\* handler's goroutine until the transport hands back a response or an error,
\* and the handler then runs to its next call or to its return
SpecFair ==
    /\ Init
    /\ [][Next]_vars
    /\ \A id \in Reqs :
           /\ WF_vars(\E reply \in Replies : DirectUpstreamReturns(id, reply))
           /\ WF_vars(\E reply \in Replies : ProxyUpstreamReturns(id, reply))

\* os.Setenv / os.Unsetenv of FLARESOLVERR_URL after the handlers were built
\* (the tests do it; the handlers hold their own copy of the URL)
Setenv(v) ==
    /\ env' = v
    /\ UNCHANGED <<directHandler, proxyHandler, reqs>>

NextEnv ==
    \/ Next
    \/ \E v \in EnvValues : Setenv(v)

\* the program in a process whose environment changes while it serves
SpecEnv == Init /\ [][NextEnv]_vars

---------------------------------------------------------------------------
(* Vocabulary of the properties                                            *)

Direct(q) == q.router = "direct"
Proxy(q) == q.router = "proxy"
Responded(q) == q.state = "responded"
LastReply(q) == q.replies[Len(q.replies)]

\* a well-formed answer whose status is "ok"
ReplyOK(reply) == reply.kind = "json" /\ reply.status = "ok"

\* an upstream-reported failure: a well-formed answer whose status is not "ok"
ReplyFailure(reply) == reply.kind = "json" /\ reply.status # "ok"

HTMLType == "text/html; charset=utf-8"
JSONType == "application/json"

\* the body is one write of these raw fragments
BodyIsRaw(q, text) == q.w.body = <<[format |-> "raw", text |-> text]>>

\* the body is one write of the JSON object {"error": message}
BodyIsError(q, message) == q.w.body = <<[format |-> "json-error", text |-> message]>>

\* some write of raw text holds this fragment
BodyContains(q, fragment) ==
    \E i \in DOMAIN q.w.body :
        /\ q.w.body[i].format = "raw"
        /\ \E j \in DOMAIN q.w.body[i].text : q.w.body[i].text[j] = fragment

\* the JSON error message a failed answer is reported with
FailureMessage(reply) ==
    CASE reply.kind = "transport" -> <<"Failed to connect to FlareSolverr: ", reply.cause>>
      [] reply.kind = "read" -> <<"Failed to read response: ", reply.cause>>
      [] reply.kind = "malformed" -> <<"Failed to parse response: ", reply.cause>>
      [] OTHER -> <<"FlareSolverr error: ", reply.message>>

---------------------------------------------------------------------------
(* C1..C10                                                                 *)

\* C1: a direct-mode request whose upstream answer has status "ok" ends the
\* request there: the client gets 200, text/html; charset=utf-8, and a body
\* that is exactly the answer's solution.response, whatever solution.status is.
C1_DirectSuccess ==
    \A id \in Reqs :
        LET q == reqs[id] IN
        \A i \in DOMAIN q.replies :
            (Direct(q) /\ ReplyOK(q.replies[i])) =>
                /\ i = Len(q.replies)
                /\ Responded(q)
                /\ q.w.code = 200
                /\ q.w.contentType = HTMLType
                /\ BodyIsRaw(q, <<q.replies[i].response>>)

\* a direct-mode request answered "ok" with solution.status 404, served as 200
C1_Witness ==
    \E id \in Reqs :
        LET q == reqs[id] IN
        /\ Direct(q) /\ Responded(q) /\ q.replies # <<>>
        /\ ReplyOK(LastReply(q)) /\ LastReply(q).solStatus = 404
        /\ q.w.code = 200 /\ BodyIsRaw(q, <<"<B>">>)

\* C2: a direct-mode request whose path is "/" or empty gets 400, for every
\* method and query, and no upstream call is made for it.
C2_DirectRootRejected ==
    \A id \in Reqs :
        LET q == reqs[id] IN
        (Direct(q) /\ q.in.path \in {Empty, Slash}) =>
            /\ Responded(q)
            /\ q.w.code = 400
            /\ q.calls = <<>>

\* a POST to "/" with a query and a PUT to the empty path, both rejected
C2_Witness ==
    /\ \E id \in Reqs :
        LET q == reqs[id] IN
        /\ Direct(q) /\ q.in.path = Slash /\ q.in.method = "POST"
        /\ q.in.rawQuery # Empty /\ q.w.code = 400
    /\ \E id \in Reqs :
        LET q == reqs[id] IN
        /\ Direct(q) /\ q.in.path = Empty /\ q.in.method = "PUT" /\ q.w.code = 400

\* C3: in direct mode, once the first (https) call has come back with an
\* upstream-reported failure there are exactly two calls: the second has the
\* first's URL with the leading https:// replaced by http:// and nothing else
\* changed, and the first's command.  A call is made only after the one
\* before it has returned, and there is never a third.
C3_FallbackSequencing ==
    \A id \in Reqs :
        LET q == reqs[id] IN
        Direct(q) =>
            /\ Len(q.calls) <= 2
            /\ Len(q.calls) <= Len(q.replies) + 1
            /\ (q.replies # <<>> /\ ReplyFailure(q.replies[1])) =>
                   /\ Len(q.calls) = 2
                   /\ HasPrefix(q.calls[1].url, HTTPSPrefix)
                   /\ q.calls[2].url =
                          HTTPPrefix \o SubSeq(q.calls[1].url, Len(HTTPSPrefix) + 1,
                                               Len(q.calls[1].url))
                   /\ q.calls[2].cmd = q.calls[1].cmd

\* a request whose path holds "https://", failed twice, ended after two calls
C3_Witness ==
    \E id \in Reqs :
        LET q == reqs[id] IN
        /\ Direct(q) /\ Responded(q) /\ q.in.path = PathWithScheme
        /\ Len(q.replies) = 2 /\ ReplyFailure(q.replies[1]) /\ ReplyFailure(q.replies[2])
        /\ Len(q.calls) = 2

\* C4: in direct mode, after an upstream-reported failure of the https
\* attempt nothing is answered until the http attempt has returned, and the
\* response is the second answer's: 200 with its solution.response when it is
\* "ok", otherwise 500 with the JSON error of the second attempt's failure.
C4_FallbackOutcome ==
    \A id \in Reqs :
        LET q == reqs[id] IN
        (Direct(q) /\ q.replies # <<>> /\ ReplyFailure(q.replies[1])) =>
            /\ Len(q.replies) = 1 => (~Responded(q) /\ q.w = NewWriter)
            /\ Len(q.replies) = 2 =>
                   /\ Responded(q)
                   /\ IF ReplyOK(q.replies[2])
                      THEN /\ q.w.code = 200
                           /\ BodyIsRaw(q, <<q.replies[2].response>>)
                      ELSE /\ q.w.code = 500
                           /\ q.w.contentType = JSONType
                           /\ BodyIsError(q, FailureMessage(q.replies[2]))

\* first answer: error "X"; second answer: error "Y"; the client reads "Y"
C4_Witness ==
    \E id \in Reqs :
        LET q == reqs[id] IN
        /\ Direct(q) /\ Responded(q) /\ Len(q.replies) = 2
        /\ q.replies[1].status = "error" /\ q.replies[1].message = "X"
        /\ q.replies[2].status = "error" /\ q.replies[2].message = "Y"
        /\ q.w.code = 500 /\ BodyIsError(q, <<"FlareSolverr error: ", "Y">>)

\* C5: in either mode a call that fails at transport level ends the request:
\* 500, application/json, {"error": "Failed to connect to FlareSolverr: <cause>"},
\* and no call follows the failed one, so that a request whose call to the
\* upstream fails has made exactly one call.
C5_TransportFailure ==
    \A id \in Reqs :
        LET q == reqs[id] IN
        \A i \in DOMAIN q.replies :
            q.replies[i].kind = "transport" =>
                /\ i = Len(q.replies)
                /\ Len(q.calls) = i
                /\ Responded(q)
                /\ q.w.code = 500
                /\ q.w.contentType = JSONType
                /\ BodyIsError(q, <<"Failed to connect to FlareSolverr: ",
                                    q.replies[i].cause>>)

\* one direct and one proxy request, each ended by its first call's failure
C5_Witness ==
    \E a, b \in Reqs :
        /\ Direct(reqs[a]) /\ Proxy(reqs[b])
        /\ \A id \in {a, b} :
              /\ Len(reqs[id].replies) = 1
              /\ reqs[id].replies[1].kind = "transport"
              /\ Len(reqs[id].calls) = 1
              /\ reqs[id].w.code = 500

\* C6: a proxy-mode CONNECT gets 405 with a plain-text body that holds
\* "CONNECT method is not supported", and no upstream call is made for it.
C6_ProxyConnect ==
    \A id \in Reqs :
        LET q == reqs[id] IN
        (Proxy(q) /\ q.in.method = "CONNECT") =>
            /\ Responded(q)
            /\ q.w.code = 405
            /\ q.w.contentType = "text/plain; charset=utf-8"
            /\ BodyContains(q, "CONNECT method is not supported")
            /\ q.calls = <<>>

C6_Witness ==
    \E id \in Reqs :
        LET q == reqs[id] IN
        /\ Proxy(q) /\ q.in.method = "CONNECT" /\ q.in.scheme = Empty
        /\ q.w.code = 405 /\ q.w.headerWrites = 1

\* C7: a proxy-mode request whose method is neither GET nor CONNECT gets 405
\* with a body that holds "Method not allowed", and no upstream call is made.
C7_ProxyOtherMethods ==
    \A id \in Reqs :
        LET q == reqs[id] IN
        (Proxy(q) /\ q.in.method \notin {"GET", "CONNECT"}) =>
            /\ Responded(q)
            /\ q.w.code = 405
            /\ BodyContains(q, "Method not allowed")
            /\ q.calls = <<>>

\* a POST and a PUT to the proxy port, both refused
C7_Witness ==
    \E a, b \in Reqs :
        /\ Proxy(reqs[a]) /\ reqs[a].in.method = "POST" /\ reqs[a].w.code = 405
        /\ Proxy(reqs[b]) /\ reqs[b].in.method = "PUT" /\ reqs[b].w.code = 405

\* C8: a proxy-mode GET whose upstream answer is well-formed with a status
\* other than "ok" gets 500, application/json and {"error": "FlareSolverr
\* error: <message>"} with the answer's message, after exactly one call.
C8_ProxyUpstreamFailure ==
    \A id \in Reqs :
        LET q == reqs[id] IN
        (Proxy(q) /\ q.replies # <<>> /\ ReplyFailure(q.replies[1])) =>
            /\ Responded(q)
            /\ q.w.code = 500
            /\ q.w.contentType = JSONType
            /\ BodyIsError(q, <<"FlareSolverr error: ", q.replies[1].message>>)
            /\ Len(q.calls) = 1
            /\ Len(q.replies) = 1

\* a proxy GET of an https URL, answered with error "Y": one call, no fallback
C8_Witness ==
    \E id \in Reqs :
        LET q == reqs[id] IN
        /\ Proxy(q) /\ Responded(q) /\ q.replies # <<>>
        /\ HasPrefix(q.calls[1].url, HTTPSPrefix)
        /\ q.replies[1].status = "error" /\ q.replies[1].message = "Y"
        /\ BodyIsError(q, <<"FlareSolverr error: ", "Y">>)

\* the request passes the router's own checks and its upstream POST can be built
Forwarded(q) ==
    \/ /\ Direct(q)
       /\ q.in.path \notin {Empty, Slash}
       /\ ~NewRequestFails(directHandler.flareSolverrURL)
    \/ /\ Proxy(q)
       /\ q.in.method = "GET"
       /\ ~NewRequestFails(proxyHandler.flareSolverrURL)

\* C9: a request that is forwarded has made exactly one upstream call, except
\* a direct-mode request whose first (https) call came back with an
\* upstream-reported failure, which has made exactly two; a request that is
\* not forwarded has made none; no request makes more than two, and a
\* proxy-mode request never more than one.
C9_CallCount ==
    \A id \in Reqs :
        LET q == reqs[id] IN
        /\ Len(q.calls) <= 2
        /\ Proxy(q) => Len(q.calls) <= 1
        /\ Len(q.calls) =
              IF ~Forwarded(q) THEN 0
              ELSE IF Direct(q) /\ q.replies # <<>> /\ ReplyFailure(q.replies[1])
                   THEN 2 ELSE 1

\* a direct request ended after two calls beside a proxy request whose only
\* call failed, and neither call log grew
C9_Witness ==
    \E a, b \in Reqs :
        /\ Direct(reqs[a]) /\ Responded(reqs[a]) /\ Len(reqs[a].calls) = 2
        /\ Proxy(reqs[b]) /\ Responded(reqs[b]) /\ Len(reqs[b].calls) = 1
        /\ ReplyFailure(reqs[b].replies[1])

\* C10: two requests with the same input whose calls were answered alike made
\* the same calls (command, URL, timeout) and got the same response; and a 200
\* is never served without the request's own call: its body is the answer to
\* the request's own last call.
C10_Stateless ==
    /\ \A a, b \in Reqs :
          ( /\ reqs[a].router = reqs[b].router
            /\ reqs[a].in = reqs[b].in
            /\ reqs[a].replies = reqs[b].replies ) =>
              /\ reqs[a].state = reqs[b].state
              /\ reqs[a].calls = reqs[b].calls
              /\ reqs[a].w = reqs[b].w
    /\ \A id \in Reqs :
          LET q == reqs[id] IN
          q.w.code = 200 =>
              /\ q.calls # <<>>
              /\ Len(q.replies) = Len(q.calls)
              /\ ReplyOK(LastReply(q))
              /\ BodyIsRaw(q, <<LastReply(q).response>>)

\* the same direct request served twice with the same "ok" answer
C10_Witness ==
    \E a, b \in Reqs :
        /\ a # b
        /\ Direct(reqs[a]) /\ Direct(reqs[b])
        /\ reqs[a].in = reqs[b].in
        /\ Responded(reqs[a]) /\ Responded(reqs[b])
        /\ reqs[a].replies = reqs[b].replies
        /\ Len(reqs[a].replies) = 1 /\ ReplyOK(reqs[a].replies[1])
        /\ reqs[a].calls = reqs[b].calls /\ Len(reqs[b].calls) = 1
        /\ reqs[a].w = reqs[b].w /\ reqs[b].w.code = 200

---------------------------------------------------------------------------
(* C11..C20                                                                *)

\* the URL with its scheme http changed to https, and as it is when its
\* scheme is not http
SchemeRewritten(u) ==
    IF u.scheme = SchemeHTTP
    THEN SchemeHTTPS \o SubSeq(URLString(u), Len(SchemeHTTP) + 1, Len(URLString(u)))
    ELSE URLString(u)

\* C11: the URL a proxy-mode GET sends upstream is the request's URL with only
\* its scheme changed from http to https; a URL whose scheme is not http is
\* sent as it is, whatever "http://" text its path or query holds.
C11_ProxySchemeOnly ==
    \A id \in Reqs :
        LET q == reqs[id] IN
        (Proxy(q) /\ q.calls # <<>>) => q.calls[1].url = SchemeRewritten(q.in)

\* the number of characters after the leading slash up to the next slash
DomainLen(path) ==
    LET t == Tail(path)
    IN  CHOOSE n \in 0..Len(t) :
            /\ \A i \in 1..n : t[i] # "/"
            /\ n = Len(t) \/ t[n + 1] = "/"

\* C12: the first upstream call of a direct-mode request for /<domain>[/<rest>]
\* has the URL "https://" + domain + ("/" + rest, when a slash follows the
\* domain) + ("?" + raw query, when the query is not empty), the domain being
\* the text between the leading slash and the next slash.
C12_DirectURL ==
    \A id \in Reqs :
        LET q == reqs[id]
            t == Tail(q.in.path)
            n == DomainLen(q.in.path)
            domain == SubSeq(t, 1, n)
            rest == SubSeq(t, n + 2, Len(t))
        IN  (Direct(q) /\ q.calls # <<>>) =>
                /\ Head(q.in.path) = "/"
                /\ q.calls[1].url =
                       HTTPSPrefix \o domain
                       \o (IF n < Len(t) THEN Slash \o rest ELSE Empty)
                       \o (IF q.in.rawQuery # Empty
                           THEN <<"?">> \o q.in.rawQuery ELSE Empty)

\* /a/b?q went upstream as https://a/b?q, /a/https://b as https://a/https://b
C12_Witness ==
    /\ \E id \in Reqs :
          /\ Direct(reqs[id]) /\ reqs[id].in.path = PathAB
          /\ reqs[id].in.rawQuery = <<"q">> /\ reqs[id].calls # <<>>
          /\ reqs[id].calls[1].url = HTTPSPrefix \o <<"a", "/", "b", "?", "q">>
    /\ \E id \in Reqs :
          /\ Direct(reqs[id]) /\ reqs[id].in.path = PathWithScheme
          /\ reqs[id].calls # <<>>
          /\ reqs[id].calls[1].url = HTTPSPrefix \o <<"a", "/">> \o HTTPSPrefix \o <<"b">>

\* an answer whose body is not JSON, or is JSON without the status field
\* (such as {}), which json.Unmarshal decodes to Status ""
ReplyShapeError(reply) ==
    \/ reply.kind = "malformed"
    \/ reply.kind = "json" /\ reply.status = ""

\* C13: in direct mode an answer to the https attempt that is not JSON or
\* lacks the expected fields ends the request with a 500 JSON error after
\* exactly one upstream call: it never starts the fallback.
C13_ShapeErrorNoFallback ==
    \A id \in Reqs :
        LET q == reqs[id] IN
        (Direct(q) /\ q.replies # <<>> /\ ReplyShapeError(q.replies[1])) =>
            /\ Responded(q)
            /\ q.w.code = 500
            /\ q.w.contentType = JSONType
            /\ Len(q.calls) = 1

\* C14 as stated: every upstream call of either router carries one and the
\* same command name, whatever the method of the request it is made for.
C14_OneCommand ==
    \A a, b \in Reqs :
        \A i \in DOMAIN reqs[a].calls, j \in DOMAIN reqs[b].calls :
            reqs[a].calls[i].cmd = reqs[b].calls[j].cmd

\* C14, amended: every call of the proxy router carries request.get; every
\* call of the direct router, the fallback call included, carries
\* request.post when the request's method is POST and request.get otherwise.
C14_CommandByMethod ==
    \A id \in Reqs :
        LET q == reqs[id] IN
        \A i \in DOMAIN q.calls :
            q.calls[i].cmd =
                IF Direct(q) /\ q.in.method = "POST"
                THEN "request.post" ELSE "request.get"

\* a direct POST whose two calls both carry request.post, beside a proxy GET
C14_Witness ==
    \E a, b \in Reqs :
        /\ Direct(reqs[a]) /\ reqs[a].in.method = "POST" /\ Len(reqs[a].calls) = 2
        /\ reqs[a].calls[1].cmd = "request.post" /\ reqs[a].calls[2].cmd = "request.post"
        /\ Proxy(reqs[b]) /\ Len(reqs[b].calls) = 1 /\ reqs[b].calls[1].cmd = "request.get"

\* C15: the direct router never refuses a request for its method (no 405,
\* and 400 only for the root or empty path), and a request with a method
\* other than GET and POST makes the same upstream calls and gets the same
\* response as the same request sent with GET and answered alike.
C15_DirectAnyMethod ==
    /\ \A id \in Reqs :
          LET q == reqs[id] IN
          Direct(q) =>
              /\ q.w.code # 405
              /\ q.w.code = 400 => q.in.path \in {Empty, Slash}
    /\ \A a, b \in Reqs :
          ( /\ Direct(reqs[a]) /\ Direct(reqs[b])
            /\ reqs[a].in.method = "GET"
            /\ reqs[b].in.method \notin {"GET", "POST"}
            /\ reqs[a].in.path = reqs[b].in.path
            /\ reqs[a].in.rawQuery = reqs[b].in.rawQuery
            /\ reqs[a].replies = reqs[b].replies ) =>
              /\ reqs[a].state = reqs[b].state
              /\ reqs[a].calls = reqs[b].calls
              /\ reqs[a].w = reqs[b].w

\* /a/b?q sent with GET and with CONNECT, both failed twice: same two calls,
\* same 500
C15_Witness ==
    \E a, b \in Reqs :
        /\ Direct(reqs[a]) /\ Direct(reqs[b])
        /\ reqs[a].in.method = "GET" /\ reqs[b].in.method = "CONNECT"
        /\ reqs[a].in.path = PathAB /\ reqs[b].in.path = PathAB
        /\ reqs[a].in.rawQuery = reqs[b].in.rawQuery
        /\ Responded(reqs[a]) /\ Responded(reqs[b])
        /\ Len(reqs[b].calls) = 2 /\ reqs[a].calls = reqs[b].calls
        /\ reqs[b].w.code = 500 /\ reqs[a].w = reqs[b].w

\* the handler that serves a request
HandlerOf(q) == IF Direct(q) THEN directHandler ELSE proxyHandler

\* every call made so far is a POST to the handler's URL with a JSON body of
\* cmd, url and maxTimeout = 60000
CallsWellShaped ==
    \A id \in Reqs :
        LET q == reqs[id] IN
        \A i \in DOMAIN q.calls :
            /\ DOMAIN q.calls[i] =
                   {"method", "to", "contentType", "cmd", "url", "maxTimeout"}
            /\ q.calls[i].method = "POST"
            /\ q.calls[i].to = HandlerOf(q).flareSolverrURL
            /\ q.calls[i].contentType = "application/json"
            /\ q.calls[i].maxTimeout = 60000

\* C16: every upstream call of either router, the fallback call included, is
\* a POST to the configured base URL with Content-Type application/json and a
\* body of cmd, url and maxTimeout = 60000; the base URL is the value of
\* FLARESOLVERR_URL when the handler was built (http://flaresolverr:8191/v1
\* when unset) and no step changes it, whatever the environment does later.
C16_OutboundShape ==
    /\ directHandler.flareSolverrURL =
           (IF env = "" THEN "http://flaresolverr:8191/v1" ELSE env)
    /\ proxyHandler.flareSolverrURL =
           (IF env = "" THEN "http://flaresolverr:8191/v1" ELSE env)
    /\ [][directHandler' = directHandler /\ proxyHandler' = proxyHandler]_vars
    /\ []CallsWellShaped

\* the variable was set after an unset start, and both calls of a later
\* direct request still went to the default URL
C16_Witness ==
    /\ env = "http://custom:9999/api"
    /\ directHandler.flareSolverrURL = "http://flaresolverr:8191/v1"
    /\ \E id \in Reqs :
          /\ Direct(reqs[id]) /\ Len(reqs[id].calls) = 2
          /\ reqs[id].calls[1].to = "http://flaresolverr:8191/v1"
          /\ reqs[id].calls[2].to = "http://flaresolverr:8191/v1"
          /\ reqs[id].calls[2].maxTimeout = 60000

\* the three terminal states, by what the client was sent
RespondedSuccess(q) ==
    /\ q.w.code = 200 /\ q.w.contentType = HTMLType
    /\ q.w.body[1].format = "raw"
RespondedClientError(q) ==
    /\ q.w.code \in {400, 405} /\ q.w.contentType = "text/plain; charset=utf-8"
    /\ q.w.body[1].format = "raw"
RespondedUpstreamError(q) ==
    /\ q.w.code = 500 /\ q.w.contentType = JSONType
    /\ q.w.body[1].format = "json-error"

\* nothing is sent to the client of a request that is still being served, and
\* a served request was sent one status line and one body, of one terminal kind
WrittenOnce ==
    \A id \in Reqs :
        LET q == reqs[id] IN
        /\ ~Responded(q) => q.w = NewWriter
        /\ Responded(q) =>
              /\ q.w.headerWrites = 1
              /\ Len(q.w.body) = 1
              /\ \/ RespondedSuccess(q)
                 \/ RespondedClientError(q)
                 \/ RespondedUpstreamError(q)

\* C17: a request ends in exactly one of Responded-Success (200),
\* Responded-ClientError (400/405) and Responded-UpstreamError (500), with the
\* status line, the header and the body written once; until then nothing is
\* written (on the fallback path, nothing before the second call has
\* returned), and nothing is written or called after.
C17_SingleResponse ==
    /\ []WrittenOnce
    /\ [][\A id \in Reqs : Responded(reqs[id]) => reqs'[id] = reqs[id]]_vars

\* one request waits for its fallback call with nothing written yet, beside
\* one that was answered once after its own fallback call
C17_Witness ==
    \E a, b \in Reqs :
        /\ Direct(reqs[a]) /\ reqs[a].state = "forwarding"
        /\ Len(reqs[a].calls) = 2 /\ Len(reqs[a].replies) = 1
        /\ reqs[a].w = NewWriter
        /\ Direct(reqs[b]) /\ Responded(reqs[b]) /\ Len(reqs[b].replies) = 2
        /\ reqs[b].w.headerWrites = 1 /\ Len(reqs[b].w.body) = 1

\* the path has no domain segment: nothing stands between the leading slash
\* and the next slash (or the end)
DomainMissing(path) == path = Empty \/ DomainLen(path) = 0

\* C18: a direct-mode request whose domain segment is empty ("/", the empty
\* path, but also "//" or "//x") is answered 400 and no upstream call is made
\* for it.
C18_MissingDomainRejected ==
    \A id \in Reqs :
        LET q == reqs[id] IN
        (Direct(q) /\ DomainMissing(q.in.path)) =>
            /\ Responded(q)
            /\ q.w.code = 400
            /\ q.calls = <<>>

\* s is an initial part of t
IsPrefix(s, t) == Len(s) <= Len(t) /\ SubSeq(t, 1, Len(s)) = s

\* what a request has called and answered is fixed by its router, its input
\* and the answers to its own calls, whatever else is being served
OwnInputsDecide ==
    \A a, b \in Reqs :
        (reqs[a].router = reqs[b].router /\ reqs[a].in = reqs[b].in) =>
            /\ IsPrefix(reqs[a].replies, reqs[b].replies) =>
                   IsPrefix(reqs[a].calls, reqs[b].calls)
            /\ reqs[a].replies = reqs[b].replies =>
                   /\ reqs[a].state = reqs[b].state
                   /\ reqs[a].w = reqs[b].w

\* a step serves one request: it leaves every other request, both handlers
\* and the environment as they were
OneRequestPerStep ==
    /\ directHandler' = directHandler
    /\ proxyHandler' = proxyHandler
    /\ env' = env
    /\ \E id \in Reqs : \A o \in Reqs \ {id} : reqs'[o] = reqs[o]

\* C19: with requests served concurrently, on one router or on both, under
\* every interleaving of their calls and answers a request's calls (number,
\* URLs, commands) and its response depend only on the request and on the
\* answers to its own calls; a handler step changes that request alone and
\* leaves the handlers' URL and every other request untouched.
C19_Isolation ==
    /\ []OwnInputsDecide
    /\ [][OneRequestPerStep]_vars

\* a direct request waiting for its fallback call while a proxy request
\* waits for its call, beside: two calls in flight at once
C19_Witness ==
    \E a, b \in Reqs :
        /\ Direct(reqs[a]) /\ reqs[a].state = "forwarding" /\ Len(reqs[a].calls) = 2
        /\ Proxy(reqs[b]) /\ reqs[b].state = "forwarding" /\ Len(reqs[b].calls) = 1

\* the calls one request may make one after the other: two on the direct
\* router, one on the proxy router
CallLimit(q) == IF Direct(q) THEN 2 ELSE 1

\* a request waiting on its upstream call moves only when that call returns:
\* no step answers it or re-issues its call without a new reply (no timeout)
WaitsForUpstream ==
    \A id \in Reqs :
        (reqs[id].state = "forwarding" /\ reqs'[id] # reqs[id]) =>
            /\ Len(reqs'[id].replies) = Len(reqs[id].replies) + 1
            /\ SubSeq(reqs'[id].replies, 1, Len(reqs[id].replies)) = reqs[id].replies

\* C20: when every upstream call returns, a request that is waiting on one
\* is eventually answered, after at most two calls on the direct router and
\* one on the proxy router; while its call is out the request stays in
\* Forwarding, since nothing but the call's return moves it.
C20_EventualResponse ==
    /\ \A id \in Reqs : (reqs[id].state = "forwarding") ~> Responded(reqs[id])
    /\ [](\A id \in Reqs : Len(reqs[id].calls) <= CallLimit(reqs[id]))
    /\ [][WaitsForUpstream]_vars

\* a direct request answered after its second call, and a proxy request
\* answered after its only call
C20_Witness ==
    \E a, b \in Reqs :
        /\ Direct(reqs[a]) /\ Responded(reqs[a])
        /\ Len(reqs[a].calls) = 2 /\ Len(reqs[a].replies) = 2
        /\ Proxy(reqs[b]) /\ Responded(reqs[b])
        /\ Len(reqs[b].calls) = 1 /\ Len(reqs[b].replies) = 1

====
